---- MODULE Spec2Model ----
(***************************************************************************)
(* A model of eosjs2-serialize.ts: the SerialBuffer byte buffer, the wire  *)
(* primitives (varuint32/varint32, name, symbol, asset), the type registry *)
(* (createInitialTypes, getType, getTypesFromAbi), the struct / array /    *)
(* optional codecs and the action-level entry points.                      *)
(*                                                                         *)
(* JavaScript numbers that may leave the range of the model checker's      *)
(* integers are kept as a pair of 16-bit halves, value = hi * 2^16 + lo    *)
(* with 0 <= lo < 2^16 (hi is negative for a negative number).  Strings    *)
(* are sequences of one-character strings, so that charCodeAt, substr and  *)
(* endsWith are computed and not assumed.                                  *)
(***************************************************************************)
EXTENDS Integers, Sequences, FiniteSets, TLC

VARIABLES
    buffer,        \* the SerialBuffer: [length, array, readPos]
    arg,           \* the arguments of the operation applied last
    result,        \* what the operation applied last returned or threw
    pc,            \* the position of the caller
    heap,          \* the Type objects, by identity
    initialTypes,  \* the Map given to getTypesFromAbi: name -> Type identity
    types,         \* the Map the last getTypesFromAbi call built
    calls          \* the number of getTypesFromAbi calls made

vars == <<buffer, arg, result, pc, heap, initialTypes, types, calls>>

(***************************************************************************)
(* 32-bit arithmetic of JavaScript's bitwise operators                     *)
(***************************************************************************)
Half == 256 * 256

Num(i) == [hi |-> i \div Half, lo |-> i % Half]

RECURSIVE Pow2(_)
Pow2(k) == IF k = 0 THEN 1 ELSE 2 * Pow2(k - 1)

BitOf(i, k) == (i \div Pow2(k)) % 2

\* ToUint32 / ToInt32 as a sequence of 32 bits, bit 0 first
ToBits32(n) ==
    [k \in 1..32 |-> IF k <= 16 THEN BitOf(n.lo, k - 1)
                     ELSE BitOf(n.hi % Half, k - 17)]

RECURSIVE BitsValue(_, _, _)
BitsValue(b, from, to) ==
    IF from > to THEN 0 ELSE b[from] + 2 * BitsValue(b, from + 1, to)

\* the number a bit pattern stands for, read as unsigned and as signed
FromBitsU(b) == [hi |-> BitsValue(b, 17, 32), lo |-> BitsValue(b, 1, 16)]

FromBitsS(b) ==
    [hi |-> BitsValue(b, 17, 32) - (IF b[32] = 1 THEN Half ELSE 0),
     lo |-> BitsValue(b, 1, 16)]

\* n >>> k
Ushr(n, k) ==
    LET b == ToBits32(n)
        s == k % 32
    IN  FromBitsU([i \in 1..32 |-> IF i + s <= 32 THEN b[i + s] ELSE 0])

\* n >> k
Sar(n, k) ==
    LET b == ToBits32(n)
        s == k % 32
    IN  FromBitsS([i \in 1..32 |-> IF i + s <= 32 THEN b[i + s] ELSE b[32]])

\* n << k
Shl(n, k) ==
    LET b == ToBits32(n)
        s == k % 32
    IN  FromBitsS([i \in 1..32 |-> IF i - s >= 1 THEN b[i - s] ELSE 0])

BitAnd(m, n) ==
    LET a == ToBits32(m)
        b == ToBits32(n)
    IN  FromBitsS([i \in 1..32 |-> a[i] * b[i]])

BitOr(m, n) ==
    LET a == ToBits32(m)
        b == ToBits32(n)
    IN  FromBitsS([i \in 1..32 |-> IF a[i] + b[i] > 0 THEN 1 ELSE 0])

BitXor(m, n) ==
    LET a == ToBits32(m)
        b == ToBits32(n)
    IN  FromBitsS([i \in 1..32 |-> (a[i] + b[i]) % 2])

BitNot(n) ==
    LET b == ToBits32(n)
    IN  FromBitsS([i \in 1..32 |-> 1 - b[i]])

\* the conversion a Uint8Array applies to a number stored in it
ToUint8(n) == n.lo % 256

Truthy(n) == n.hi # 0 \/ n.lo # 0

(***************************************************************************)
(* SerialBuffer                                                            *)
(***************************************************************************)
\* `array` is the whole Uint8Array, the bytes past `length` included; its
\* length is the capacity of the buffer.
InitialCapacity == 1024

\* new Uint8Array(l): l zero bytes
RECURSIVE NewUint8Array(_)
NewUint8Array(l) ==
    IF l = 0 THEN <<>>
    ELSE LET half == NewUint8Array(l \div 2)
         IN  half \o half \o (IF l % 2 = 1 THEN <<0>> ELSE <<>>)

NewSerialBuffer ==
    [length |-> 0, array |-> NewUint8Array(InitialCapacity), readPos |-> 0]

\* the written bytes
asUint8Array(b) == SubSeq(b.array, 1, b.length)

\* Math.ceil(l * 1.5)
GrowOnce(l) == (3 * l + 1) \div 2

RECURSIVE GrownCapacity(_, _)
GrownCapacity(l, needed) ==
    IF needed > l THEN GrownCapacity(GrowOnce(l), needed) ELSE l

\* target.set(v, offset): the bytes of v over those of target from offset on
SetAt(target, v, offset) ==
    SubSeq(target, 1, offset) \o v \o SubSeq(target, offset + Len(v) + 1, Len(target))

\* F(x), with x evaluated once
With(x, F(_)) == CHOOSE y \in {F(z) : z \in {x}} : TRUE

\* A variant of reserve that does not copy the old array into the new one.
reserveWithoutCopy(b, size) ==
    With(b, LAMBDA c :
        IF c.length + size <= Len(c.array) THEN c
        ELSE [c EXCEPT !.array = NewUint8Array(GrownCapacity(Len(c.array), c.length + size))])

reserve(b, size) ==
    With(b, LAMBDA c :
        IF c.length + size <= Len(c.array) THEN c
        ELSE LET l == GrownCapacity(Len(c.array), c.length + size)
             IN  [c EXCEPT !.array = SetAt(NewUint8Array(l), c.array, 0)])

\* v is a sequence of numbers already reduced to bytes
pushArray(b, v) ==
    With(v, LAMBDA w :
        With(reserve(b, Len(w)), LAMBDA r :
            [r EXCEPT !.array = SetAt(r.array, w, r.length), !.length = r.length + Len(w)]))

push(b, v) == pushArray(b, v)

\* the result of a read: the buffer after it, the value, and the error thrown
Ok(b, v) == [buf |-> b, val |-> v, err |-> ""]
Throw(b, e) == [buf |-> b, val |-> <<>>, err |-> e]

\* A variant of get that reads when the cursor is at the written length.
getAtLength(b) ==
    IF b.readPos <= b.length
    THEN Ok([b EXCEPT !.readPos = b.readPos + 1], b.array[b.readPos + 1])
    ELSE Throw(b, "BufferUnderrun")

get(b) ==
    IF b.readPos < b.length
    THEN Ok([b EXCEPT !.readPos = b.readPos + 1], b.array[b.readPos + 1])
    ELSE Throw(b, "BufferUnderrun")

getUint8Array(b, len) ==
    IF b.readPos + len > b.length THEN Throw(b, "BufferUnderrun")
    ELSE Ok([b EXCEPT !.readPos = b.readPos + len],
            SubSeq(b.array, b.readPos + 1, b.readPos + len))

pushUint8ArrayChecked(b, v, len) ==
    IF Len(v) # len THEN Throw(b, "SizeMismatch")
    ELSE Ok(pushArray(b, v), <<>>)

\* the bytes pushVaruint32 pushes, one per iteration of its loop
RECURSIVE VaruintBytes(_)
VaruintBytes(v) ==
    IF Truthy(Ushr(v, 7))
    THEN <<ToUint8(BitOr(Num(128), BitAnd(v, Num(127))))>>
             \o VaruintBytes(Ushr(v, 7))
    ELSE <<ToUint8(v)>>

pushVaruint32(b, v) == pushArray(b, VaruintBytes(v))

\* the loop of getVaruint32: v and bit are its locals
RECURSIVE getVaruint32Loop(_, _, _)
getVaruint32Loop(b, v, bit) ==
    LET r == get(b)
    IN  IF r.err # "" THEN r
        ELSE LET v2 == BitOr(v, Shl(BitAnd(Num(r.val), Num(127)), bit))
             IN  IF r.val \div 128 = 0 THEN Ok(r.buf, Ushr(v2, 0))
                 ELSE getVaruint32Loop(r.buf, v2, bit + 7)

getVaruint32(b) == getVaruint32Loop(b, Num(0), 0)

\* A variant of pushVarint32 that shifts the sign in with >>> instead of >>.
pushVarint32Unsigned(b, v) == pushVaruint32(b, BitXor(Shl(v, 1), Ushr(v, 31)))

pushVarint32(b, v) == pushVaruint32(b, BitXor(Shl(v, 1), Sar(v, 31)))

getVarint32(b) ==
    LET r == getVaruint32(b)
    IN  IF r.err # "" THEN r
        ELSE IF Truthy(BitAnd(r.val, Num(1)))
             THEN Ok(r.buf, BitOr(Sar(BitNot(r.val), 1), [hi |-> 32768, lo |-> 0]))
             ELSE Ok(r.buf, Ushr(r.val, 1))

(***************************************************************************)
(* Strings: sequences of one-character strings over printable ASCII        *)
(***************************************************************************)
\* the characters of codes 32 to 126, in order (code 96 is written out)
AsciiChars ==
    <<
       " ", "!", "\"", "#", "$", "%", "&", "'", "(", ")", "*", "+",
       ",", "-", ".", "/", "0", "1", "2", "3", "4", "5", "6", "7",
       "8", "9", ":", ";", "<", "=", ">", "?", "@", "A", "B", "C",
       "D", "E", "F", "G", "H", "I", "J", "K", "L", "M", "N", "O",
       "P", "Q", "R", "S", "T", "U", "V", "W", "X", "Y", "Z", "[",
       "\\", "]", "^", "_", "grave", "a", "b", "c", "d", "e", "f", "g",
       "h", "i", "j", "k", "l", "m", "n", "o", "p", "q", "r", "s",
       "t", "u", "v", "w", "x", "y", "z", "{", "|", "}", "~"
    >>

charCodeAt(s, i) == 31 + CHOOSE k \in 1..Len(AsciiChars) : AsciiChars[k] = s[i]

fromCharCode(c) == AsciiChars[c - 31]

\* TextEncoder.encode and TextDecoder.decode on ASCII text
textEncode(s) == [i \in 1..Len(s) |-> charCodeAt(s, i)]
textDecode(a) == [i \in 1..Len(a) |-> fromCharCode(a[i])]

IsDigit(s, pos) == pos <= Len(s) /\ charCodeAt(s, pos) >= 48 /\ charCodeAt(s, pos) <= 57

\* s.substr(pos) with pos a 1-based position
SubstrFrom(s, pos) == SubSeq(s, pos, Len(s))

RECURSIVE TrimLeft(_)
TrimLeft(s) == IF Len(s) > 0 /\ s[1] = " " THEN TrimLeft(Tail(s)) ELSE s

RECURSIVE TrimRight(_)
TrimRight(s) ==
    IF Len(s) > 0 /\ s[Len(s)] = " " THEN TrimRight(SubSeq(s, 1, Len(s) - 1)) ELSE s

trim(s) == TrimRight(TrimLeft(s))

endsWith(s, suffix) ==
    Len(s) >= Len(suffix) /\ SubSeq(s, Len(s) - Len(suffix) + 1, Len(s)) = suffix

(***************************************************************************)
(* name: 13 characters packed into 8 bytes                                 *)
(***************************************************************************)
\* the 8 bytes of a 64-bit pattern (bit 0 first) and back
BytesOfBits(bits) ==
    [k \in 1..(Len(bits) \div 8) |-> BitsValue(bits, 8 * k - 7, 8 * k)]

BitsOfBytes(a) ==
    [p \in 1..(8 * Len(a)) |-> BitOf(a[((p - 1) \div 8) + 1], (p - 1) % 8)]

\* A variant of charToSymbol that gives the digits 1 to 5 the values 0 to 4.
charToSymbolFromZero(c) ==
    IF c >= 97 /\ c <= 122 THEN (c - 97) + 6
    ELSE IF c >= 49 /\ c <= 53 THEN c - 49
    ELSE 0

charToSymbol(c) ==
    IF c >= 97 /\ c <= 122 THEN (c - 97) + 6
    ELSE IF c >= 49 /\ c <= 53 THEN (c - 49) + 1
    ELSE 0

\* the loop of pushName over the characters of s: a is the 64-bit pattern
\* built so far (a[p] is bit p - 1), bit the next bit to write
RECURSIVE pushNameLoop(_, _, _, _)
pushNameLoop(s, i, a, bit) ==
    IF i > Len(s) THEN a
    ELSE LET c0 == charToSymbol(charCodeAt(s, i))
             c == IF bit < 5 THEN 2 * c0 ELSE c0
             a2 == [p \in 1..64 |->
                      IF p - 1 <= bit /\ p - 1 > bit - 5
                      THEN (IF a[p] + BitOf(c, 4 - (bit - (p - 1))) > 0 THEN 1 ELSE 0)
                      ELSE a[p]]
         IN  pushNameLoop(s, i + 1, a2, IF bit - 5 < 0 THEN -1 ELSE bit - 5)

pushName(b, s) ==
    pushArray(b, BytesOfBits(pushNameLoop(s, 1, [p \in 1..64 |-> 0], 63)))

\* one character of getName: the value of up to 5 bits from `bit` downwards
RECURSIVE NameGroup(_, _, _, _)
NameGroup(a, bit, i, c) ==
    IF i = 5 \/ bit < 0 THEN c
    ELSE NameGroup(a, bit - 1, i + 1, 2 * c + a[bit + 1])

NameChar(c) ==
    IF c >= 6 THEN fromCharCode(c + 97 - 6)
    ELSE IF c >= 1 THEN fromCharCode(c + 49 - 1)
    ELSE "."

RECURSIVE getNameLoop(_, _)
getNameLoop(a, bit) ==
    IF bit < 0 THEN <<>>
    ELSE <<NameChar(NameGroup(a, bit, 0, 0))>> \o getNameLoop(a, bit - 5)

RECURSIVE StripDots(_)
StripDots(s) ==
    IF endsWith(s, <<".">>) THEN StripDots(SubSeq(s, 1, Len(s) - 1)) ELSE s

ThirteenDots == [i \in 1..13 |-> "."]

getName(b) ==
    LET r == getUint8Array(b, 8)
    IN  IF r.err # "" THEN r
        ELSE LET str == getNameLoop(BitsOfBytes(r.val), 63)
             IN  IF str = ThirteenDots THEN Ok(r.buf, str)
                 ELSE Ok(r.buf, StripDots(str))

(***************************************************************************)
(* symbol and asset                                                        *)
(***************************************************************************)
\* a.slice(0, 8) after the loop that pads a with zeros to 8 entries
PadTo8(a) == [i \in 1..8 |-> IF i <= Len(a) THEN a[i] ELSE 0]

pushSymbol(b, name, precision) ==
    pushArray(b, PadTo8(<<precision % 256>> \o textEncode(name)))

\* the index of the first zero byte of a, Len(a) + 1 when there is none
RECURSIVE FirstZero(_, _)
FirstZero(a, i) == IF i > Len(a) \/ a[i] = 0 THEN i ELSE FirstZero(a, i + 1)

getSymbol(b) ==
    LET p == get(b)
    IN  IF p.err # "" THEN p
        ELSE LET a == getUint8Array(p.buf, 7)
             IN  IF a.err # "" THEN a
                 ELSE Ok(a.buf, [name |-> textDecode(SubSeq(a.val, 1, FirstZero(a.val, 1) - 1)),
                                 precision |-> p.val])

\* numeric.decimalToBinary: the digits of s accumulated into `size` bytes,
\* least significant byte first
RECURSIVE MulAdd(_, _, _, _)
MulAdd(bytes, j, mul, carry) ==
    IF j > Len(bytes) THEN [bytes |-> bytes, carry |-> carry]
    ELSE LET x == bytes[j] * mul + carry
         IN  MulAdd([bytes EXCEPT ![j] = x % 256], j + 1, mul, x \div 256)

\* one digit of s taken into the bytes, unless an earlier digit failed
decimalToBinaryStep(s, i, acc) ==
    IF acc.err # "" THEN acc
    ELSE IF ~IsDigit(s, i) THEN [bytes |-> acc.bytes, err |-> "InvalidNumber"]
    ELSE LET r == MulAdd(acc.bytes, 1, 10, charCodeAt(s, i) - 48)
         IN  IF r.carry # 0 THEN [bytes |-> acc.bytes, err |-> "OutOfRange"]
             ELSE [bytes |-> r.bytes, err |-> ""]

\* the digits from..to of s in order (the range is halved to keep the
\* evaluation shallow on a long string)
RECURSIVE decimalToBinaryLoop(_, _, _, _)
decimalToBinaryLoop(s, from, to, acc) ==
    IF from > to THEN acc
    ELSE IF from = to THEN decimalToBinaryStep(s, from, acc)
    ELSE LET mid == (from + to) \div 2
             left == decimalToBinaryLoop(s, from, mid, acc)
         IN  IF left.err # "" THEN left ELSE decimalToBinaryLoop(s, mid + 1, to, left)

decimalToBinary(size, s) ==
    decimalToBinaryLoop(s, 1, Len(s), [bytes |-> [j \in 1..size |-> 0], err |-> ""])

\* the two-complement negation of a little-endian byte sequence
RECURSIVE NegateFrom(_, _, _)
NegateFrom(bytes, j, carry) ==
    IF j > Len(bytes) THEN bytes
    ELSE LET x == (255 - bytes[j]) + carry
         IN  NegateFrom([bytes EXCEPT ![j] = x % 256], j + 1, x \div 256)

negate(bytes) == NegateFrom(bytes, 1, 1)

isNegative(bytes) == bytes[Len(bytes)] >= 128

signedDecimalToBinary(size, s) ==
    LET negative == Len(s) > 0 /\ s[1] = "-"
        r == decimalToBinary(size, IF negative THEN Tail(s) ELSE s)
    IN  IF r.err # "" \/ ~negative THEN r
        ELSE [bytes |-> negate(r.bytes), err |-> ""]

\* numeric.binaryToDecimal: digits is the decimal number so far, least
\* significant digit first, never shorter than minDigits
\* the digits from..to multiplied by 256 with the carry taken along (the
\* range is halved to keep the evaluation shallow on a long number)
RECURSIVE DigitsMulAdd(_, _, _)
DigitsMulAdd(acc, from, to) ==
    IF from > to THEN acc
    ELSE IF from = to
    THEN LET x == acc.digits[from] * 256 + acc.carry
         IN  [digits |-> [acc.digits EXCEPT ![from] = x % 10], carry |-> x \div 10]
    ELSE LET mid == (from + to) \div 2
             left == DigitsMulAdd(acc, from, mid)
         IN  IF left.carry < 0 THEN left ELSE DigitsMulAdd(left, mid + 1, to)

\* the carry left over appended digit by digit
RECURSIVE PushCarry(_, _)
PushCarry(digits, carry) ==
    IF carry = 0 THEN digits
    ELSE PushCarry(Append(digits, carry % 10), carry \div 10)

RECURSIVE binaryToDecimalLoop(_, _, _)
binaryToDecimalLoop(bytes, i, digits) ==
    IF i < 1 THEN digits
    ELSE LET r == DigitsMulAdd([digits |-> digits, carry |-> bytes[i]], 1, Len(digits))
         IN  binaryToDecimalLoop(bytes, i - 1, PushCarry(r.digits, r.carry))

binaryToDecimal(bytes, minDigits) ==
    LET digits == binaryToDecimalLoop(bytes, Len(bytes), [j \in 1..minDigits |-> 0])
    IN  [k \in 1..Len(digits) |-> fromCharCode(48 + digits[Len(digits) + 1 - k])]

signedBinaryToDecimal(bytes, minDigits) ==
    IF isNegative(bytes) THEN <<"-">> \o binaryToDecimal(negate(bytes), minDigits)
    ELSE binaryToDecimal(bytes, minDigits)

\* the position at which the loop over the digits of s from pos on stops
SkipDigits(s, pos) ==
    CHOOSE p \in pos..(Len(s) + 1) :
        ~IsDigit(s, p) /\ \A q \in pos..(p - 1) : IsDigit(s, q)

pushAsset(b, text) ==
    LET s == trim(text)
        neg == Len(s) >= 1 /\ s[1] = "-"
        p0 == IF neg THEN 2 ELSE 1
        p1 == SkipDigits(s, p0)
        foundDigit == p1 > p0
        dot == p1 <= Len(s) /\ s[p1] = "."
        p2 == IF dot THEN SkipDigits(s, p1 + 1) ELSE p1
        amount == SubSeq(s, 1, p1 - 1) \o (IF dot THEN SubSeq(s, p1 + 1, p2 - 1) ELSE <<>>)
        precision == IF dot THEN p2 - (p1 + 1) ELSE 0
        name == trim(SubstrFrom(s, p2))
        bin == signedDecimalToBinary(8, amount)
    IN  IF ~foundDigit THEN Throw(b, "MalformedAsset")
        ELSE IF bin.err # "" THEN Throw(b, bin.err)
        ELSE Ok(pushSymbol(pushArray(b, bin.bytes), name, precision), <<>>)

\* A variant of getAsset that asks for precision digits, not precision + 1.
getAssetShort(b) ==
    With(getUint8Array(b, 8), LAMBDA amount :
        IF amount.err # "" THEN amount
        ELSE With(getSymbol(amount.buf), LAMBDA sym :
            IF sym.err # "" THEN sym
            ELSE LET precision == sym.val.precision
                 IN  With(signedBinaryToDecimal(amount.val, precision), LAMBDA s :
                         Ok(sym.buf,
                            (IF precision # 0
                             THEN SubSeq(s, 1, Len(s) - precision) \o <<".">>
                                      \o SubSeq(s, Len(s) - precision + 1, Len(s))
                             ELSE s) \o <<" ">> \o sym.val.name))))

getAsset(b) ==
    With(getUint8Array(b, 8), LAMBDA amount :
        IF amount.err # "" THEN amount
        ELSE With(getSymbol(amount.buf), LAMBDA sym :
            IF sym.err # "" THEN sym
            ELSE LET precision == sym.val.precision
                 IN  With(signedBinaryToDecimal(amount.val, precision + 1), LAMBDA s :
                         Ok(sym.buf,
                            (IF precision # 0
                             THEN SubSeq(s, 1, Len(s) - precision) \o <<".">>
                                      \o SubSeq(s, Len(s) - precision + 1, Len(s))
                             ELSE s) \o <<" ">> \o sym.val.name))))

(***************************************************************************)
(* Types and the registry                                                  *)
(***************************************************************************)
\* A reference to a Type: null, a Type object of the heap (an entry of a
\* registry, shared by identity), or a Type that getType has just created
\* (never stored in a registry, never changed after its creation).
Null == [k |-> "null"]
ObjRef(id) == [k |-> "obj", id |-> id]
NewRef(t) == [k |-> "new", type |-> t]

Deref(h, ref) == IF ref.k = "obj" THEN h[ref.id] ELSE ref.type

\* the names the model uses
N_uint8 == <<"u", "i", "n", "t", "8">>
N_name == <<"n", "a", "m", "e">>
N_asset == <<"a", "s", "s", "e", "t">>
N_extended_asset == <<"e", "x", "t", "e", "n", "d", "e", "d", "_", "a", "s", "s", "e", "t">>
N_quantity == <<"q", "u", "a", "n", "t", "i", "t", "y">>
N_contract == <<"c", "o", "n", "t", "r", "a", "c", "t">>

createType(attrs) ==
    LET defaults == [name |-> <<"<", "m", "i", "s", "s", "i", "n", "g", " ", "n", "a", "m", "e", ">">>,
                     aliasOfName |-> <<>>,
                     arrayOf |-> Null,
                     optionalOf |-> Null,
                     baseName |-> <<>>,
                     base |-> Null,
                     fields |-> <<>>,
                     serialize |-> "serializeUnknown",
                     deserialize |-> "deserializeUnknown"]
    IN  [f \in DOMAIN defaults |-> IF f \in DOMAIN attrs THEN attrs[f] ELSE defaults[f]]

\* A Map: its keys in insertion order and the value of each key.
EmptyMap == [keys |-> <<>>, at |-> [n \in {} |-> <<>>]]

MapHas(m, k) == k \in DOMAIN m.at

MapSet(m, k, v) ==
    [keys |-> IF MapHas(m, k) THEN m.keys ELSE Append(m.keys, k),
     at |-> [n \in DOMAIN m.at \cup {k} |-> IF n = k THEN v ELSE m.at[n]]]

\* a Type object stored in the heap under a new identity
HeapPut(h, id, t) == [i \in DOMAIN h \cup {id} |-> IF i = id THEN t ELSE h[i]]

\* The identity of a Type object: the call that created it (0 for
\* createInitialTypes) and the name it was created for.
BootId(name) == <<0, name>>

\* createInitialTypes, for the primitives the model encodes (uint8, name,
\* asset, in the order of the table) and extended_asset
PrimitiveType(name, codec) ==
    createType([name |-> name, serialize |-> codec, deserialize |-> codec])

ExtendedAssetType ==
    createType([name |-> N_extended_asset,
                baseName |-> <<>>,
                fields |-> <<[name |-> N_quantity, typeName |-> N_asset,
                              type |-> ObjRef(BootId(N_asset))],
                             [name |-> N_contract, typeName |-> N_name,
                              type |-> ObjRef(BootId(N_name))]>>,
                serialize |-> "serializeStruct",
                deserialize |-> "deserializeStruct"])

createInitialTypes ==
    LET h1 == HeapPut([i \in {} |-> <<>>], BootId(N_uint8), PrimitiveType(N_uint8, "uint8"))
        h2 == HeapPut(h1, BootId(N_name), PrimitiveType(N_name, "name"))
        h3 == HeapPut(h2, BootId(N_asset), PrimitiveType(N_asset, "asset"))
        h4 == HeapPut(h3, BootId(N_extended_asset), ExtendedAssetType)
        m1 == MapSet(EmptyMap, N_uint8, BootId(N_uint8))
        m2 == MapSet(m1, N_name, BootId(N_name))
        m3 == MapSet(m2, N_asset, BootId(N_asset))
        m4 == MapSet(m3, N_extended_asset, BootId(N_extended_asset))
    IN  [heap |-> h4, map |-> m4]

\* An upper bound of the calls a getType that returns can make: it never
\* sees a name twice, and every name it sees is the name asked for, an alias
\* target, or one of these with array and optional suffixes taken off.
MaxOf(S) == IF S = {} THEN 0 ELSE CHOOSE x \in S : \A y \in S : y <= x

ResolveLimit(h, m, name) ==
    (Cardinality(DOMAIN m.at) + 1)
        * (MaxOf({Len(name)} \cup {Len(h[m.at[n]].aliasOfName) : n \in DOMAIN m.at}) + 1)

\* getType with the calls left before it is known never to return
RECURSIVE getTypeWithin(_, _, _, _)
\* A variant of getType that looks at the suffix of the name before it looks
\* the name up.
getTypeSuffixFirst(h, m, name, left) ==
    IF left = 0 THEN [ref |-> Null, err |-> "NoReturn"]
    ELSE IF endsWith(name, <<"[", "]">>)
    THEN LET of == getTypeWithin(h, m, SubSeq(name, 1, Len(name) - 2), left - 1)
         IN  IF of.err # "" THEN of
             ELSE [ref |-> NewRef(createType([name |-> name,
                                              arrayOf |-> of.ref,
                                              serialize |-> "serializeArray",
                                              deserialize |-> "deserializeArray"])),
                   err |-> ""]
    ELSE IF endsWith(name, <<"?">>)
    THEN LET of == getTypeWithin(h, m, SubSeq(name, 1, Len(name) - 1), left - 1)
         IN  IF of.err # "" THEN of
             ELSE [ref |-> NewRef(createType([name |-> name,
                                              optionalOf |-> of.ref,
                                              serialize |-> "serializeOptional",
                                              deserialize |-> "deserializeOptional"])),
                   err |-> ""]
    ELSE IF MapHas(m, name) /\ h[m.at[name]].aliasOfName # <<>>
    THEN getTypeWithin(h, m, h[m.at[name]].aliasOfName, left - 1)
    ELSE IF MapHas(m, name)
    THEN [ref |-> ObjRef(m.at[name]), err |-> ""]
    ELSE [ref |-> Null, err |-> "UnknownType"]

getTypeWithin(h, m, name, left) ==
    IF left = 0 THEN [ref |-> Null, err |-> "NoReturn"]
    ELSE IF MapHas(m, name) /\ h[m.at[name]].aliasOfName # <<>>
    THEN getTypeWithin(h, m, h[m.at[name]].aliasOfName, left - 1)
    ELSE IF MapHas(m, name)
    THEN [ref |-> ObjRef(m.at[name]), err |-> ""]
    ELSE IF endsWith(name, <<"[", "]">>)
    THEN LET of == getTypeWithin(h, m, SubSeq(name, 1, Len(name) - 2), left - 1)
         IN  IF of.err # "" THEN of
             ELSE [ref |-> NewRef(createType([name |-> name,
                                              arrayOf |-> of.ref,
                                              serialize |-> "serializeArray",
                                              deserialize |-> "deserializeArray"])),
                   err |-> ""]
    ELSE IF endsWith(name, <<"?">>)
    THEN LET of == getTypeWithin(h, m, SubSeq(name, 1, Len(name) - 1), left - 1)
         IN  IF of.err # "" THEN of
             ELSE [ref |-> NewRef(createType([name |-> name,
                                              optionalOf |-> of.ref,
                                              serialize |-> "serializeOptional",
                                              deserialize |-> "deserializeOptional"])),
                   err |-> ""]
    ELSE [ref |-> Null, err |-> "UnknownType"]

getType(h, m, name) == getTypeWithin(h, m, name, ResolveLimit(h, m, name))

\* the first loop of getTypesFromAbi: one alias Type per entry of abi.types
RECURSIVE DeclareAliases(_, _, _, _)
DeclareAliases(st, aliases, i, call) ==
    IF i > Len(aliases) THEN st
    ELSE LET a == aliases[i]
             id == <<call, a.new_type_name>>
         IN  DeclareAliases(
                 [heap |-> HeapPut(st.heap, id,
                                   createType([name |-> a.new_type_name,
                                               aliasOfName |-> a.type])),
                  map |-> MapSet(st.map, a.new_type_name, id)],
                 aliases, i + 1, call)

\* the second loop: one struct Type per entry of abi.structs, its fields
\* carrying the type names only
RECURSIVE DeclareStructs(_, _, _, _)
DeclareStructs(st, structs, i, call) ==
    IF i > Len(structs) THEN st
    ELSE LET d == structs[i]
             id == <<call, d.name>>
         IN  DeclareStructs(
                 [heap |-> HeapPut(st.heap, id,
                                   createType([name |-> d.name,
                                               baseName |-> d.base,
                                               fields |-> [k \in 1..Len(d.fields) |->
                                                   [name |-> d.fields[k].name,
                                                    typeName |-> d.fields[k].type,
                                                    type |-> Null]],
                                               serialize |-> "serializeStruct",
                                               deserialize |-> "deserializeStruct"])),
                  map |-> MapSet(st.map, d.name, id)],
                 structs, i + 1, call)

\* the third loop, for one entry: its fields from the i-th on
RECURSIVE ResolveFields(_, _, _, _)
ResolveFields(h, m, id, i) ==
    IF i > Len(h[id].fields) THEN [heap |-> h, err |-> ""]
    ELSE LET r == getType(h, m, h[id].fields[i].typeName)
         IN  IF r.err # "" THEN [heap |-> h, err |-> r.err]
             ELSE ResolveFields([h EXCEPT ![id].fields[i].type = r.ref], m, id, i + 1)

\* the third loop, from the k-th key of the Map on
RECURSIVE ResolveEntries(_, _, _)
ResolveEntries(h, m, k) ==
    IF k > Len(m.keys) THEN [heap |-> h, err |-> ""]
    ELSE LET id == m.at[m.keys[k]]
             b == IF h[id].baseName # <<>> THEN getType(h, m, h[id].baseName)
                  ELSE [ref |-> h[id].base, err |-> ""]
         IN  IF b.err # "" THEN [heap |-> h, err |-> b.err]
             ELSE LET f == ResolveFields([h EXCEPT ![id].base = b.ref], m, id, 1)
                  IN  IF f.err # "" THEN f ELSE ResolveEntries(f.heap, m, k + 1)

\* getTypesFromAbi as the call-th call: the heap after it, the Map it
\* returns, and the error it throws instead
getTypesFromAbi(h, initial, abi, call) ==
    LET declared == DeclareStructs(
                        DeclareAliases([heap |-> h, map |-> initial], abi.types, 1, call),
                        abi.structs, 1, call)
        resolved == ResolveEntries(declared.heap, declared.map, 1)
    IN  [heap |-> resolved.heap, map |-> declared.map, err |-> resolved.err]

(***************************************************************************)
(* The codecs of Types                                                     *)
(***************************************************************************)
\* Values: a number, a string (its characters), null, undefined, an array
\* (its elements), an object (its properties by name), a Uint8Array (its
\* bytes).
NumberOf(n) == [t |-> "number", num |-> n]
StringOf(s) == [t |-> "string", str |-> s]
NullValue == [t |-> "null"]
UndefinedValue == [t |-> "undefined"]
ArrayOf(a) == [t |-> "array", items |-> a]
ObjectOf(o) == [t |-> "object", props |-> o]
BytesOf(a) == [t |-> "bytes", bytes |-> a]

\* the error of serializeStruct, with the struct and the field it names
MissingField(b, type, field) ==
    [buf |-> b, val |-> [type |-> type.name, field |-> field.name], err |-> "MissingField"]

\* An upper bound of the codec calls that can be nested without a step into
\* the value or a byte read: one per Type object and per suffix of a name.
NestLimit(h, ref) ==
    (Cardinality(DOMAIN h) + 1)
        * (MaxOf(UNION {{Len(h[id].fields[i].typeName) : i \in DOMAIN h[id].fields} :
                            id \in DOMAIN h} \cup
                 {IF ref.k = "new" THEN Len(ref.type.name) ELSE 0}) + 1)

RECURSIVE DataDepth(_)
DataDepth(d) ==
    IF d.t = "array" THEN 1 + MaxOf({DataDepth(d.items[i]) : i \in DOMAIN d.items})
    ELSE IF d.t = "object" THEN 1 + MaxOf({DataDepth(d.props[n]) : n \in DOMAIN d.props})
    ELSE 1

SerializeLimit(h, ref, data) == NestLimit(h, ref) * (DataDepth(data) + 1)
DeserializeLimit(h, ref, b) == NestLimit(h, ref) * (b.length - b.readPos + 1)

RECURSIVE serialize(_, _, _, _, _)
RECURSIVE serializeFields(_, _, _, _, _, _)
RECURSIVE serializeItems(_, _, _, _, _, _, _)

\* A variant of serializeStruct that writes the own fields before the base.
serializeStructOwnFirst(h, type, b, data, left) ==
    LET own == serializeFields(h, type, b, data, 1, left)
    IN  IF own.err # "" THEN own
        ELSE IF type.base.k # "null" THEN serialize(h, type.base, own.buf, data, left)
        ELSE own

\* serializeStruct: the base first, then the own fields
serializeStruct(h, type, b, data, left) ==
    LET base == IF type.base.k # "null" THEN serialize(h, type.base, b, data, left)
                ELSE Ok(b, <<>>)
    IN  IF base.err # "" THEN base
        ELSE serializeFields(h, type, base.buf, data, 1, left)

\* A variant of the loop of serializeStruct that passes over a field the
\* value lacks.
serializeFieldsPresent(h, type, b, data, i, left) ==
    IF i > Len(type.fields) THEN Ok(b, <<>>)
    ELSE IF data.t # "object" THEN Throw(b, "TypeError")
    ELSE IF type.fields[i].name \notin DOMAIN data.props
    THEN serializeFields(h, type, b, data, i + 1, left)
    ELSE LET r == serialize(h, type.fields[i].type, b, data.props[type.fields[i].name], left)
         IN  IF r.err # "" THEN r
             ELSE serializeFields(h, type, r.buf, data, i + 1, left)

\* the loop of serializeStruct from the i-th field on
serializeFields(h, type, b, data, i, left) ==
    IF i > Len(type.fields) THEN Ok(b, <<>>)
    ELSE IF data.t # "object" THEN Throw(b, "TypeError")
    ELSE IF type.fields[i].name \notin DOMAIN data.props
    THEN MissingField(b, type, type.fields[i])
    ELSE LET r == serialize(h, type.fields[i].type, b, data.props[type.fields[i].name], left)
         IN  IF r.err # "" THEN r
             ELSE serializeFields(h, type, r.buf, data, i + 1, left)

\* the loop of serializeArray over the items from the i-th to the j-th, as
\* its first half followed by its second half
serializeItems(h, type, b, items, i, j, left) ==
    IF i > j THEN Ok(b, <<>>)
    ELSE IF i = j THEN serialize(h, type.arrayOf, b, items[i], left)
    ELSE LET r == serializeItems(h, type, b, items, i, (i + j) \div 2, left)
         IN  IF r.err # "" THEN r
             ELSE serializeItems(h, type, r.buf, items, ((i + j) \div 2) + 1, j, left)

\* A variant of serializeArray that writes the count as one byte.
serializeArrayByteCount(h, type, b, data, left) ==
    IF data.t = "array"
    THEN serializeItems(h, type, push(b, <<Len(data.items) % 256>>), data.items, 1,
                        Len(data.items), left)
    ELSE Throw(push(b, <<0>>), "TypeError")

\* an object has no length and cannot be iterated
serializeArray(h, type, b, data, left) ==
    IF data.t = "array"
    THEN serializeItems(h, type, pushVaruint32(b, Num(Len(data.items))), data.items, 1,
                        Len(data.items), left)
    ELSE Throw(push(b, <<0>>), "TypeError")

serializeOptional(h, type, b, data, left) ==
    IF data.t \in {"null", "undefined"} THEN Ok(push(b, <<0>>), <<>>)
    ELSE serialize(h, type.optionalOf, push(b, <<1>>), data, left)

\* type.serialize(buffer, data), with the nested calls it has left; a number
\* made from an object is NaN, a byte made from NaN is 0, and the length of
\* an object is undefined
serialize(h, ref, b, data, left) ==
    IF left = 0 THEN Throw(b, "NoReturn")
    ELSE IF ref.k = "null" THEN Throw(b, "TypeError")
    ELSE LET type == Deref(h, ref)
         IN  CASE type.serialize = "serializeUnknown" -> Throw(b, "UnknownCodec")
               [] type.serialize = "serializeStruct" ->
                      serializeStruct(h, type, b, data, left - 1)
               [] type.serialize = "serializeArray" ->
                      serializeArray(h, type, b, data, left - 1)
               [] type.serialize = "serializeOptional" ->
                      serializeOptional(h, type, b, data, left - 1)
               [] type.serialize = "uint8" ->
                      IF data.t = "number" THEN Ok(push(b, <<ToUint8(data.num)>>), <<>>)
                      ELSE IF data.t = "object" THEN Ok(push(b, <<0>>), <<>>)
                      ELSE Throw(b, "Unmodelled")
               [] type.serialize = "name" ->
                      IF data.t = "string" THEN Ok(pushName(b, data.str), <<>>)
                      ELSE IF data.t = "object" THEN Ok(pushName(b, <<>>), <<>>)
                      ELSE Throw(b, "Unmodelled")
               [] type.serialize = "asset" ->
                      IF data.t = "string" THEN pushAsset(b, data.str)
                      ELSE Throw(b, "TypeError")

RECURSIVE deserialize(_, _, _, _)
RECURSIVE deserializeFields(_, _, _, _, _, _)
RECURSIVE deserializeItems(_, _, _, _, _)

\* the loop of deserializeStruct from the i-th field on; a property cannot
\* be set on a number, a string or null
deserializeFields(h, type, b, res, i, left) ==
    IF i > Len(type.fields) THEN Ok(b, res)
    ELSE IF res.t # "object" THEN Throw(b, IF res.t = "array" THEN "Unmodelled" ELSE "TypeError")
    ELSE LET r == deserialize(h, type.fields[i].type, b, left)
         IN  IF r.err # "" THEN r
             ELSE deserializeFields(h, type, r.buf,
                      ObjectOf([n \in DOMAIN res.props \cup {type.fields[i].name} |->
                                   IF n = type.fields[i].name THEN r.val ELSE res.props[n]]),
                      i + 1, left)

deserializeStruct(h, type, b, left) ==
    LET base == IF type.base.k # "null" THEN deserialize(h, type.base, b, left)
                ELSE Ok(b, ObjectOf([n \in {} |-> NullValue]))
    IN  IF base.err # "" THEN base
        ELSE deserializeFields(h, type, base.buf, base.val, 1, left)

\* len rounds of the loop of deserializeArray and the items they read, as
\* the first half of the rounds followed by the second half
deserializeItems(h, type, b, len, left) ==
    IF len <= 0 THEN Ok(b, <<>>)
    ELSE IF len = 1
    THEN LET r == deserialize(h, type.arrayOf, b, left)
         IN  IF r.err # "" THEN r ELSE Ok(r.buf, <<r.val>>)
    ELSE LET first == deserializeItems(h, type, b, len \div 2, left)
         IN  IF first.err # "" THEN first
             ELSE LET rest == deserializeItems(h, type, first.buf, len - (len \div 2), left)
                  IN  IF rest.err # "" THEN rest
                      ELSE Ok(rest.buf, first.val \o rest.val)

\* the count is below 2^31 in the model: it is compared as its low half
\* when the high half is 0
deserializeArray(h, type, b, left) ==
    LET len == getVaruint32(b)
    IN  IF len.err # "" THEN len
        ELSE IF len.val.hi # 0 THEN Throw(len.buf, "Unmodelled")
        ELSE LET r == deserializeItems(h, type, len.buf, len.val.lo, left)
             IN  IF r.err # "" THEN r ELSE Ok(r.buf, ArrayOf(r.val))

deserializeOptional(h, type, b, left) ==
    LET r == get(b)
    IN  IF r.err # "" THEN r
        ELSE IF r.val # 0 THEN deserialize(h, type.optionalOf, r.buf, left)
        ELSE Ok(r.buf, NullValue)

\* type.deserialize(buffer), with the nested calls it has left
deserialize(h, ref, b, left) ==
    IF left = 0 THEN Throw(b, "NoReturn")
    ELSE IF ref.k = "null" THEN Throw(b, "TypeError")
    ELSE LET type == Deref(h, ref)
         IN  CASE type.deserialize = "deserializeUnknown" -> Throw(b, "UnknownCodec")
               [] type.deserialize = "deserializeStruct" ->
                      deserializeStruct(h, type, b, left - 1)
               [] type.deserialize = "deserializeArray" ->
                      deserializeArray(h, type, b, left - 1)
               [] type.deserialize = "deserializeOptional" ->
                      deserializeOptional(h, type, b, left - 1)
               [] type.deserialize = "uint8" ->
                      With(get(b), LAMBDA r :
                          IF r.err # "" THEN r ELSE Ok(r.buf, NumberOf(Num(r.val))))
               [] type.deserialize = "name" ->
                      With(getName(b), LAMBDA r :
                          IF r.err # "" THEN r ELSE Ok(r.buf, StringOf(r.val)))
               [] type.deserialize = "asset" ->
                      With(getAsset(b), LAMBDA r :
                          IF r.err # "" THEN r ELSE Ok(r.buf, StringOf(r.val)))

(***************************************************************************)
(* Hexadecimal text and the codec of actions                               *)
(***************************************************************************)
HexDigits ==
    <<"0", "1", "2", "3", "4", "5", "6", "7", "8", "9", "a", "b", "c", "d", "e", "f">>

\* x.toString(16) of a byte
toString16(x) ==
    IF x < 16 THEN <<HexDigits[x + 1]>>
    ELSE <<HexDigits[(x \div 16) + 1], HexDigits[(x % 16) + 1]>>

toUpperCase(s) ==
    [i \in 1..Len(s) |->
        IF charCodeAt(s, i) >= 97 /\ charCodeAt(s, i) <= 122
        THEN fromCharCode(charCodeAt(s, i) - 32)
        ELSE s[i]]

\* ('00' + x.toString(16)).slice(-2)
TwoDigits(x) ==
    LET padded == <<"0", "0">> \o toString16(x)
    IN  SubSeq(padded, Len(padded) - 1, Len(padded))

\* the two digits of every byte, one after the other, in upper case
arrayToHex(data) ==
    toUpperCase([i \in 1..(2 * Len(data)) |-> TwoDigits(data[(i + 1) \div 2])[2 - (i % 2)]])

\* the value of a hexadecimal digit, -1 for any other character
HexValue(c) ==
    LET code == charCodeAt(<<c>>, 1)
    IN  IF code >= 48 /\ code <= 57 THEN code - 48
        ELSE IF code >= 97 /\ code <= 102 THEN code - 87
        ELSE IF code >= 65 /\ code <= 70 THEN code - 55
        ELSE -1

\* the value of the longest prefix of s made of hexadecimal digits
RECURSIVE HexPrefix(_, _, _)
HexPrefix(s, i, acc) ==
    IF i > Len(s) \/ HexValue(s[i]) < 0 THEN [seen |-> i - 1, v |-> acc]
    ELSE HexPrefix(s, i + 1, 16 * acc + HexValue(s[i]))

\* parseInt(s, 16): white space, a sign and 0x are skipped; NaN when no
\* digit follows
parseInt16(s) ==
    LET t == TrimLeft(s)
        signed == Len(t) > 0 /\ t[1] \in {"+", "-"}
        u == IF signed THEN Tail(t) ELSE t
        prefixed == Len(u) >= 2 /\ u[1] = "0" /\ u[2] \in {"x", "X"}
        d == HexPrefix(IF prefixed THEN SubSeq(u, 3, Len(u)) ELSE u, 1, 0)
    IN  [nan |-> d.seen = 0,
         v |-> IF signed /\ t[1] = "-" THEN 0 - d.v ELSE d.v]

\* hexToUint8Array: the array has the whole part of hex.length / 2 as its
\* length, a store past its end has no effect, and NaN is stored as 0
hexToUint8Array(hex) ==
    [i \in 1..(Len(hex) \div 2) |->
        LET n == parseInt16(SubSeq(hex, 2 * i - 1, 2 * i))
        IN  IF n.nan THEN 0 ELSE n.v % 256]

serializeActionData(h, contract, account, name, data) ==
    IF name \notin DOMAIN contract.actions THEN Throw(NewSerialBuffer, "UnknownAction")
    ELSE LET action == contract.actions[name]
             r == serialize(h, action, NewSerialBuffer, data, SerializeLimit(h, action, data))
         IN  IF r.err # "" THEN r
             ELSE Ok(r.buf, StringOf(arrayToHex(asUint8Array(r.buf))))

serializeAction(h, contract, account, name, authorization, data) ==
    LET r == serializeActionData(h, contract, account, name, data)
    IN  IF r.err # "" THEN r
        ELSE Ok(r.buf, [account |-> account, name |-> name,
                        authorization |-> authorization, data |-> r.val])

\* A variant of deserializeActionData that decodes nothing for an action
\* the contract does not have.
deserializeActionDataLenient(h, contract, account, name, data) ==
    LET bytes == IF data.t = "string" THEN hexToUint8Array(data.str) ELSE data.bytes
    IN  IF name \notin DOMAIN contract.actions THEN Ok(NewSerialBuffer, NullValue)
        ELSE LET action == contract.actions[name]
                 b == pushArray(NewSerialBuffer, bytes)
             IN  deserialize(h, action, b, DeserializeLimit(h, action, b))

deserializeActionData(h, contract, account, name, data) ==
    LET bytes == IF data.t = "string" THEN hexToUint8Array(data.str) ELSE data.bytes
    IN  IF name \notin DOMAIN contract.actions THEN Throw(NewSerialBuffer, "UnknownAction")
        ELSE LET action == contract.actions[name]
                 b == pushArray(NewSerialBuffer, bytes)
             IN  deserialize(h, action, b, DeserializeLimit(h, action, b))

deserializeAction(h, contract, account, name, authorization, data) ==
    LET r == deserializeActionData(h, contract, account, name, data)
    IN  IF r.err # "" THEN r
        ELSE Ok(r.buf, [account |-> account, name |-> name,
                        authorization |-> authorization, data |-> r.val])

(***************************************************************************)
(* The registry is idle in the specifications of the wire primitives.      *)
(***************************************************************************)
NoTypes == [n \in {} |-> <<>>]

\* what the caller holds of an operation: its name, its value, its error
Returned(op, r) == [op |-> op, val |-> r.val, err |-> r.err]

NoResult == [op |-> "none", val |-> <<>>, err |-> ""]

RegistryIdle ==
    /\ heap = NoTypes
    /\ initialTypes = NoTypes
    /\ types = NoTypes
    /\ calls = 0

(***************************************************************************)
(* SpecVarint: one value pushed as a varuint32 or varint32 into a new      *)
(* buffer, then read back                                                  *)
(***************************************************************************)
NumSamples == 12

\* bit patterns at the edges of every encoded length: 2^k - 1, 2^k, 2^k + 1,
\* -2^k and -2^k - 1
EdgePatterns ==
    {[i \in 1..32 |-> IF i <= k THEN 1 ELSE 0] : k \in 0..32}
        \cup {[i \in 1..32 |-> IF i = k + 1 THEN 1 ELSE 0] : k \in 0..31}
        \cup {[i \in 1..32 |-> IF i = k + 1 \/ i = 1 THEN 1 ELSE 0] : k \in 1..31}
        \cup {[i \in 1..32 |-> IF i > k THEN 1 ELSE 0] : k \in 1..31}
        \cup {[i \in 1..32 |-> IF i = k + 1 THEN 0 ELSE 1] : k \in 0..30}

\* and some patterns in between
SamplePatterns ==
    {ToBits32([hi |-> (i * 40503 + 7) % Half, lo |-> (i * 30011 + 17) % Half]) :
        i \in 1..NumSamples}

Uint32Values == {FromBitsU(b) : b \in EdgePatterns \cup SamplePatterns}
Int32Values == {FromBitsS(b) : b \in EdgePatterns \cup SamplePatterns}

InitVarint ==
    /\ buffer = NewSerialBuffer
    /\ arg = [op |-> "none"]
    /\ result = NoResult
    /\ pc = "new"
    /\ RegistryIdle

PushVaruint32 ==
    /\ pc = "new"
    /\ \E v \in Uint32Values :
          /\ buffer' = pushVaruint32(buffer, v)
          /\ arg' = [op |-> "pushVaruint32", v |-> v]
    /\ pc' = "pushed"
    /\ UNCHANGED <<result, heap, initialTypes, types, calls>>

PushVarint32 ==
    /\ pc = "new"
    /\ \E v \in Int32Values :
          /\ buffer' = pushVarint32(buffer, v)
          /\ arg' = [op |-> "pushVarint32", v |-> v]
    /\ pc' = "pushed"
    /\ UNCHANGED <<result, heap, initialTypes, types, calls>>

GetVaruint32 ==
    /\ pc = "pushed"
    /\ result' = Returned("getVaruint32", getVaruint32(buffer))
    /\ buffer' = getVaruint32(buffer).buf
    /\ pc' = "read"
    /\ UNCHANGED <<arg, heap, initialTypes, types, calls>>

GetVarint32 ==
    /\ pc = "pushed"
    /\ result' = Returned("getVarint32", getVarint32(buffer))
    /\ buffer' = getVarint32(buffer).buf
    /\ pc' = "read"
    /\ UNCHANGED <<arg, heap, initialTypes, types, calls>>

NextVarint == PushVaruint32 \/ PushVarint32 \/ GetVaruint32 \/ GetVarint32

SpecVarint == InitVarint /\ [][NextVarint]_vars

\* the index of the highest set bit of a pattern, 0 when none is set
RECURSIVE HighBit(_, _)
HighBit(b, i) == IF i = 1 \/ b[i] = 1 THEN i ELSE HighBit(b, i - 1)

\* a LEB128 byte run with no redundant byte: the continuation flag on every
\* byte but the last, and a last byte that is zero only when it is alone
MinimalRun(a) ==
    /\ Len(a) >= 1
    /\ \A i \in 1..(Len(a) - 1) : a[i] >= 128
    /\ a[Len(a)] < 128
    /\ Len(a) > 1 => a[Len(a)] # 0

\* C6: a value pushed by pushVaruint32 (unsigned 32-bit) is returned by
\* getVaruint32, a value pushed by pushVarint32 (signed 32-bit) is returned by
\* getVarint32; the bytes written are a minimal run (for varuint32 one byte
\* per 7 bits up to the highest set bit) and the read consumes all of them.
VarintRoundTrip ==
    (pc = "read" /\ ((arg.op = "pushVaruint32" /\ result.op = "getVaruint32")
                     \/ (arg.op = "pushVarint32" /\ result.op = "getVarint32")))
    => /\ result.err = ""
       /\ result.val = arg.v
       /\ buffer.readPos = buffer.length
       /\ buffer.length = Len(asUint8Array(buffer))
       /\ MinimalRun(asUint8Array(buffer))
       /\ arg.op = "pushVaruint32"
            => Len(asUint8Array(buffer)) = ((HighBit(ToBits32(arg.v), 32) - 1) \div 7) + 1

\* a five-byte varuint32 and a negative varint32 have been read back
VarintRoundTripWitness ==
    /\ pc = "read"
    /\ result.err = ""
    /\ Len(asUint8Array(buffer)) = 5
    /\ \/ arg.op = "pushVaruint32" /\ result.op = "getVaruint32" /\ arg.v.hi >= 32768
       \/ arg.op = "pushVarint32" /\ result.op = "getVarint32" /\ arg.v.hi < 0

(***************************************************************************)
(* SpecName: 8 bytes read as a name and the name pushed back; a name       *)
(* pushed and read back                                                    *)
(***************************************************************************)
NumNameSamples == 40

\* 64-bit patterns: none, one bit, the lowest k bits, the highest k bits
EdgeNamePatterns ==
    {[p \in 1..64 |-> IF p = k THEN 1 ELSE 0] : k \in 0..64}
        \cup {[p \in 1..64 |-> IF p <= k THEN 1 ELSE 0] : k \in 1..64}
        \cup {[p \in 1..64 |-> IF p > k THEN 1 ELSE 0] : k \in 1..63}

SampleNameInputs ==
    {[j \in 1..8 |-> (i * i * 37 + i * (j + 3) * 101 + j * 59 + 11) % 256] :
        i \in 1..NumNameSamples}

NameInputs == {BytesOfBits(b) : b \in EdgeNamePatterns} \cup SampleNameInputs

NameTexts ==
    {ThirteenDots,
     <<>>,
     <<"a">>,
     <<"a", "l", "i", "c", "e">>,
     <<"e", "o", "s", "i", "o", ".", "t", "o", "k", "e", "n">>,
     <<"1", "2", "3", "4", "5", "a", "b", "c", "d", "e", "f", "g", "j">>,
     <<"z", "z", "z", "z", "z", "z", "z", "z", "z", "z", "z", "z", "z", "z">>,
     <<".", ".", "a">>}

InitName ==
    /\ buffer = NewSerialBuffer
    /\ arg = [op |-> "none"]
    /\ result = NoResult
    /\ pc = "new"
    /\ RegistryIdle

PushNameBytes ==
    /\ pc = "new"
    /\ \E a \in NameInputs :
          /\ buffer' = pushArray(buffer, a)
          /\ arg' = [op |-> "pushArray", v |-> a]
    /\ pc' = "pushed"
    /\ UNCHANGED <<result, heap, initialTypes, types, calls>>

PushName ==
    /\ pc = "new"
    /\ \E s \in NameTexts :
          /\ buffer' = pushName(buffer, s)
          /\ arg' = [op |-> "pushName", v |-> s]
    /\ pc' = "pushed"
    /\ UNCHANGED <<result, heap, initialTypes, types, calls>>

GetName ==
    /\ pc \in {"pushed", "pushed back"}
    /\ result' = Returned("getName", getName(buffer))
    /\ buffer' = getName(buffer).buf
    /\ pc' = IF pc = "pushed" THEN "read" ELSE "read back"
    /\ UNCHANGED <<arg, heap, initialTypes, types, calls>>

\* the decoded name pushed into a new buffer
PushNameBack ==
    /\ pc = "read"
    /\ result.err = ""
    /\ buffer' = pushName(NewSerialBuffer, result.val)
    /\ pc' = "pushed back"
    /\ UNCHANGED <<arg, result, heap, initialTypes, types, calls>>

NextName == PushNameBytes \/ PushName \/ GetName \/ PushNameBack

SpecName == InitName /\ [][NextName]_vars

\* C7: pushName of the name that getName decodes from 8 bytes writes those 8
\* bytes again when the name is not the 13-dot sentinel, and pushName of the
\* 13-dot string followed by getName returns the 13-dot string.
NameRoundTrip ==
    /\ (pc = "pushed back" /\ arg.op = "pushArray" /\ result.val # ThirteenDots)
         => (asUint8Array(buffer) = arg.v /\ buffer.length = 8)
    /\ (pc = "read" /\ arg.op = "pushName" /\ arg.v = ThirteenDots)
         => (result.err = "" /\ result.val = ThirteenDots)

\* 8 bytes that use the 4 bits of the 13th character have been decoded to a
\* 13-character name and pushed back
NameRoundTripWitness ==
    /\ pc = "pushed back"
    /\ arg.op = "pushArray"
    /\ arg.v[1] % 16 # 0
    /\ Len(result.val) = 13
    /\ result.val # ThirteenDots

\* the 13-dot sentinel has been pushed and read back
NameSentinelWitness ==
    pc = "read" /\ arg.op = "pushName" /\ arg.v = ThirteenDots /\ result.val = ThirteenDots

(***************************************************************************)
(* SpecAsset: an asset text pushed into a new buffer, then read back       *)
(***************************************************************************)
MaxInt64Digits ==
    <<"9", "2", "2", "3", "3", "7", "2", "0", "3", "6", "8", "5", "4", "7", "7", "5",
      "8", "0", "7">>

AssetSigns == {<<>>, <<"-">>}

AssetIntegerParts ==
    {<<>>, <<"0">>, <<"1">>, <<"5">>, <<"0", "0">>, <<"0", "1">>, <<"1", "2">>,
     <<"1", "0", "0">>,
     MaxInt64Digits,
     [MaxInt64Digits EXCEPT ![19] = "8"]}

\* the longest run of fractional zeros whose count still fits the precision byte,
\* and one more
LongFraction(n) == <<".">> \o [i \in 1..n |-> "0"]

AssetFractionParts ==
    {<<>>, <<".">>, <<".", "5">>, <<".", "2", "5", "0", "0">>, <<".", "0", "0">>,
     LongFraction(255), LongFraction(256)}

AssetTickers ==
    {<<"S">>, <<"S", "Y", "S">>, <<"A", "B", "C", "D", "E", "F", "G">>}

InitAsset ==
    /\ buffer = NewSerialBuffer
    /\ arg = [op |-> "none"]
    /\ result = NoResult
    /\ pc = "new"
    /\ RegistryIdle

PushAsset ==
    /\ pc = "new"
    /\ \E sign \in AssetSigns, int \in AssetIntegerParts,
          frac \in AssetFractionParts, ticker \in AssetTickers :
          LET text == sign \o int \o frac \o <<" ">> \o ticker
              r == pushAsset(buffer, text)
          IN  /\ buffer' = r.buf
              /\ result' = Returned("pushAsset", r)
              /\ arg' = [op |-> "pushAsset", v |-> text, sign |-> sign, int |-> int,
                         frac |-> frac, ticker |-> ticker]
    /\ pc' = "pushed"
    /\ UNCHANGED <<heap, initialTypes, types, calls>>

GetAsset ==
    /\ pc = "pushed"
    /\ result.err = ""
    /\ result' = Returned("getAsset", getAsset(buffer))
    /\ buffer' = getAsset(buffer).buf
    /\ pc' = "read"
    /\ UNCHANGED <<arg, heap, initialTypes, types, calls>>

NextAsset == PushAsset \/ GetAsset

SpecAsset == InitAsset /\ [][NextAsset]_vars

StripLeadingZeros(d) ==
    LET first == CHOOSE p \in 1..(Len(d) + 1) :
                     (p = Len(d) + 1 \/ d[p] # "0") /\ \A q \in 1..(p - 1) : d[q] = "0"
    IN  SubSeq(d, first, Len(d))

\* d <= e for two digit strings of the same length
RECURSIVE DigitsLeq(_, _)
DigitsLeq(d, e) ==
    IF Len(d) = 0 THEN TRUE
    ELSE LET x == charCodeAt(d, 1)
             y == charCodeAt(e, 1)
         IN  x < y \/ (x = y /\ DigitsLeq(Tail(d), Tail(e)))

\* the digits of the amount with the decimal point removed
AmountDigits(a) == a.int \o (IF a.frac = <<>> THEN <<>> ELSE Tail(a.frac))

\* the amount fits a signed 64-bit integer: at most 2^63 - 1, or 2^63 when negative
FitsInt64(a) ==
    LET d == StripLeadingZeros(AmountDigits(a))
        top == IF a.sign = <<>> THEN MaxInt64Digits ELSE [MaxInt64Digits EXCEPT ![19] = "8"]
    IN  Len(d) < 19 \/ (Len(d) = 19 /\ DigitsLeq(d, top))

\* the texts C8 speaks of: an optional '-', one or more integer digits, an
\* optional '.' with fractional digits, fitting 64 bits, and a ticker of 1 to 7
\* upper-case letters
AssetTextOfClaim(a) ==
    /\ Len(a.int) >= 1
    /\ a.frac # <<".">>
    /\ FitsInt64(a)
    /\ Len(a.ticker) \in 1..7

\* the texts that are written the way getAsset writes them
CanonicalAssetText(a) ==
    /\ AssetTextOfClaim(a)
    /\ Len(a.int) = 1 \/ a.int[1] # "0"
    /\ a.sign = <<>> \/ StripLeadingZeros(AmountDigits(a)) # <<>>
    /\ Len(a.frac) <= 256

\* C8 as stated: every text of the claim's form is returned unchanged by
\* pushAsset followed by getAsset, and a text with no integer digit makes
\* pushAsset fail with MalformedAsset.
AssetRoundTripAsClaimed ==
    /\ (pc = "read" /\ AssetTextOfClaim(arg)) => (result.err = "" /\ result.val = arg.v)
    /\ (pc = "pushed" /\ AssetTextOfClaim(arg)) => result.err = ""
    /\ (pc = "pushed" /\ arg.int = <<>>) => result.err = "MalformedAsset"

\* C8 as amended: the same for the texts whose integer part has no redundant
\* leading zero, that are not a negative zero and that have at most 255
\* fractional digits.
AssetRoundTrip ==
    /\ (pc = "read" /\ CanonicalAssetText(arg)) => (result.err = "" /\ result.val = arg.v)
    /\ (pc = "pushed" /\ CanonicalAssetText(arg)) => result.err = ""
    /\ (pc = "pushed" /\ arg.int = <<>>) => result.err = "MalformedAsset"

\* a negative amount below one with a fraction has been read back
AssetRoundTripWitness ==
    /\ pc = "read"
    /\ CanonicalAssetText(arg)
    /\ arg.sign = <<"-">>
    /\ arg.int = <<"0">>
    /\ arg.frac = <<".", "5">>
    /\ result.val = arg.v


(***************************************************************************)
(* Schemas                                                                 *)
(***************************************************************************)
N_S == <<"S">>
N_T == <<"T">>
N_U == <<"U">>
N_X == <<"X">>
N_Y == <<"Y">>
N_Nope == <<"N", "o", "p", "e">>

ArrayName(n) == n \o <<"[", "]">>
OptionalName(n) == n \o <<"?">>

AliasDecl(new, type) == [new_type_name |-> new, type |-> type]
FieldDecl(name, type) == [name |-> name, type |-> type]
StructDecl(name, base, fields) == [name |-> name, base |-> base, fields |-> fields]

\* abi.types: none; a chain declared target last; an alias of a struct; an
\* alias under a bootstrap name; an alias of the empty name; two aliases of
\* each other; an alias of an array name; an alias of an undeclared name
AliasLists ==
    {<<>>,
     <<AliasDecl(N_X, N_Y), AliasDecl(N_Y, N_uint8)>>,
     <<AliasDecl(N_X, N_T)>>,
     <<AliasDecl(N_asset, N_name)>>,
     <<AliasDecl(N_X, <<>>)>>,
     <<AliasDecl(N_X, N_Y), AliasDecl(N_Y, N_X)>>,
     <<AliasDecl(N_Y, ArrayName(N_uint8))>>,
     <<AliasDecl(N_X, N_Nope)>>}

\* abi.structs: none; a chain of three declared most derived first; a
\* struct that contains itself and one that contains it; a struct under a
\* bootstrap name; a field of an undeclared type; a struct whose name is
\* that of another struct followed by []; a base named through an alias
StructLists ==
    {<<>>,
     <<StructDecl(N_S, N_T, <<FieldDecl(<<"a">>, N_uint8),
                              FieldDecl(<<"d">>, ArrayName(N_uint8))>>),
       StructDecl(N_T, N_U, <<FieldDecl(<<"b">>, N_X)>>),
       StructDecl(N_U, <<>>, <<FieldDecl(<<"c">>, N_asset),
                               FieldDecl(<<"e">>, OptionalName(N_name))>>)>>,
     <<StructDecl(N_S, <<>>, <<FieldDecl(<<"a">>, N_uint8),
                               FieldDecl(<<"n">>, OptionalName(N_S))>>),
       StructDecl(N_T, <<>>, <<FieldDecl(<<"s">>, N_S),
                               FieldDecl(<<"l">>, ArrayName(N_S))>>)>>,
     <<StructDecl(N_asset, <<>>, <<>>)>>,
     <<StructDecl(N_S, <<>>, <<FieldDecl(<<"a">>, N_uint8),
                               FieldDecl(<<"z">>, N_Nope)>>)>>,
     <<StructDecl(ArrayName(N_S), <<>>, <<FieldDecl(<<"a">>, N_uint8)>>),
       StructDecl(N_S, <<>>, <<FieldDecl(<<"c">>, N_asset)>>),
       StructDecl(N_T, <<>>, <<FieldDecl(<<"f">>, ArrayName(N_S))>>)>>,
     <<StructDecl(N_S, N_X, <<FieldDecl(<<"a">>, N_uint8)>>),
       StructDecl(N_T, <<>>, <<FieldDecl(<<"c">>, N_asset),
                               FieldDecl(<<"b">>, N_name)>>)>>}

Abis == {[types |-> a, structs |-> d] : a \in AliasLists, d \in StructLists}

(***************************************************************************)
(* Sequences of getTypesFromAbi calls with one initial registry            *)
(***************************************************************************)
MaxCalls == 2

InitAbi ==
    /\ buffer = NewSerialBuffer
    /\ arg = [op |-> "none"]
    /\ result = NoResult
    /\ pc = "new"
    /\ heap = createInitialTypes.heap
    /\ initialTypes = createInitialTypes.map
    /\ types = createInitialTypes.map
    /\ calls = 0

\* types = getTypesFromAbi(initialTypes, abi); the caller keeps the registry
\* it had when the call throws
\* What becomes of a getType recursion that has no end. Each round of it
\* adds a stack frame, and the engine throws a RangeError when the stack is
\* full ("StackOverflow"), unless the calls that repeat are all the tail call
\* `return getType(types, type.aliasOfName)` of this strict-mode file and
\* the engine eliminates tail calls: then the call never returns
\* ("NoReturn").
EngineOutcomes(err) == IF err = "NoReturn" THEN {"NoReturn", "StackOverflow"} ELSE {err}

\* the position of a caller whose call never returns
Running(err) == err = "NoReturn"

CallGetTypesFromAbi(abi) ==
    LET r == getTypesFromAbi(heap, initialTypes, abi, calls + 1)
    IN  /\ pc # "running"
        /\ heap' = r.heap
        /\ types' = IF r.err = "" THEN r.map ELSE types
        /\ calls' = calls + 1
        /\ arg' = [op |-> "getTypesFromAbi", abi |-> abi]
        /\ \E err \in EngineOutcomes(r.err) :
              /\ result' = [op |-> "getTypesFromAbi", val |-> <<>>, err |-> err]
              /\ pc' = IF Running(err) THEN "running" ELSE "compiled"
        /\ UNCHANGED <<buffer, initialTypes>>

GetTypesFromAbi ==
    /\ calls < MaxCalls
    /\ \E abi \in Abis : CallGetTypesFromAbi(abi)

NextAbi == GetTypesFromAbi

SpecAbi == InitAbi /\ [][NextAbi]_vars

\* C1, as claimed: after any sequence of getTypesFromAbi calls with the same
\* initial registry, the initial registry has the keys it had, and every
\* Type of it is as createInitialTypes made it, the fields of extended_asset
\* and the Types they reference included.
InitialRegistryUnchanged ==
    /\ initialTypes = createInitialTypes.map
    /\ \A id \in DOMAIN createInitialTypes.heap : heap[id] = createInitialTypes.heap[id]

\* the Types a Type references
References(h, ref) ==
    LET type == Deref(h, ref)
    IN  ({type.base, type.arrayOf, type.optionalOf}
            \cup {type.fields[i].type : i \in DOMAIN type.fields}) \ {Null}

\* the Types reachable from those of R
RECURSIVE Reachable(_, _)
Reachable(h, R) ==
    LET more == R \cup UNION {References(h, r) : r \in R}
    IN  IF more = R THEN R ELSE Reachable(h, more)

Concrete(type) ==
    /\ type.serialize # "serializeUnknown"
    /\ type.deserialize # "deserializeUnknown"

\* C4, as claimed: after getTypesFromAbi has returned, every entry with a
\* base name has a base, every field has a resolved type, and every Type
\* that getType returns for a name of the registry, and every Type reachable
\* from it, has a codec other than the unknown placeholder.
NoPlaceholderRemains ==
    (result.op = "getTypesFromAbi" /\ result.err = "")
    => /\ \A n \in DOMAIN types.at :
            LET type == heap[types.at[n]]
            IN  /\ type.baseName # <<>> => type.base # Null
                /\ \A i \in DOMAIN type.fields : type.fields[i].type # Null
       /\ \A n \in DOMAIN types.at :
            LET r == getType(heap, types, n)
            IN  r.err = "" => \A t \in Reachable(heap, {r.ref}) : Concrete(Deref(heap, t))

(***************************************************************************)
(* Values of a Type                                                        *)
(***************************************************************************)
MaxDepth == 2
MaxArrayLen == 2
LongArrayLen == 130

IsStruct(type) == type.serialize = "serializeStruct"

\* the fields of a struct in the order of the wire: those of its base chain
\* first, as far as the chain is made of structs
RECURSIVE WireFields(_, _)
WireFields(h, type) ==
    IF type.base.k # "null" /\ IsStruct(Deref(h, type.base))
    THEN WireFields(h, Deref(h, type.base)) \o type.fields
    ELSE type.fields

\* at most two of the values of a set
Sample(E) ==
    IF E = {} THEN {}
    ELSE LET first == CHOOSE e \in E : TRUE
         IN  {first} \cup (IF E = {first} THEN {} ELSE {CHOOSE e \in E : e # first})

RECURSIVE Values(_, _, _, _)

\* the objects that give the first i fields of wire a value of the type of
\* the field, or no value for some of them when partial
RECURSIVE Objects(_, _, _, _, _)
Objects(h, wire, i, depth, partial) ==
    IF i = 0 THEN {[n \in {} |-> NullValue]}
    ELSE LET before == Objects(h, wire, i - 1, depth, partial)
             V == Values(h, wire[i].type, depth, FALSE)
         IN  {[n \in DOMAIN o \cup {wire[i].name} |->
                  IF n = wire[i].name THEN v ELSE o[n]] : o \in before, v \in V}
                 \cup (IF partial THEN before ELSE {})

\* Values to encode with a Type: down to the given depth, the arrays made of
\* at most two values, and at the top also objects that lack fields,
\* undefined, and a long array
Values(h, ref, depth, top) ==
    LET type == Deref(h, ref)
    IN  CASE type.serialize = "uint8" -> {NumberOf(Num(7)), NumberOf(Num(200))}
          [] type.serialize = "name" -> {StringOf(<<"a", "l", "i", "c", "e">>)}
          [] type.serialize = "asset" ->
                 {StringOf(<<"1", ".", "0", " ", "S", "Y", "S">>), StringOf(<<".", "5", " ", "S", "Y", "S">>)}
          [] type.serialize = "serializeUnknown" -> {NumberOf(Num(7))}
          [] type.serialize = "serializeOptional" ->
                 {NullValue}
                     \cup (IF top THEN {UndefinedValue} ELSE {})
                     \cup (IF depth = 0 THEN {}
                           ELSE Values(h, type.optionalOf, depth - 1, FALSE))
          [] type.serialize = "serializeArray" ->
                 LET E == IF depth = 0 THEN {}
                          ELSE Sample(Values(h, type.arrayOf, depth - 1, FALSE))
                 IN  {ArrayOf(a) : a \in UNION {[1..n -> E] : n \in 0..MaxArrayLen}}
                         \cup (IF top /\ E # {}
                               THEN {ArrayOf([k \in 1..LongArrayLen |-> CHOOSE e \in E : TRUE])}
                               ELSE {})
          [] type.serialize = "serializeStruct" ->
                 IF depth = 0 THEN {ObjectOf([n \in {} |-> NullValue])}
                 ELSE {ObjectOf(o) :
                          o \in Objects(h, WireFields(h, type),
                                        Len(WireFields(h, type)), depth - 1, top)}

(***************************************************************************)
(* One registry and the codec calls on it                                  *)
(***************************************************************************)
N_transfer == <<"t", "r", "a", "n", "s", "f", "e", "r">>
N_issue == <<"i", "s", "s", "u", "e">>
N_eosio == <<"e", "o", "s", "i", "o">>

LookupNames ==
    {N_uint8, N_asset, N_extended_asset, N_S, N_T, N_X, N_Y, N_Nope, <<>>,
     ArrayName(N_S), ArrayName(N_X), OptionalName(N_X), OptionalName(ArrayName(N_T)),
     ArrayName(OptionalName(N_Nope)), <<"[", "]">>, <<"?">>}

SerializeNames ==
    {N_S, N_T, N_U, N_X, N_extended_asset, ArrayName(N_S), ArrayName(N_uint8),
     ArrayName(N_asset), OptionalName(N_T), OptionalName(N_X),
     ArrayName(OptionalName(N_name))}

ActionNames == {N_transfer, N_issue}

\* abi.actions: none, one action, two actions
ActionLists ==
    {<<>>,
     <<[name |-> N_transfer, type |-> N_S]>>,
     <<[name |-> N_transfer, type |-> ArrayName(N_uint8)], [name |-> N_issue, type |-> N_S]>>}

\* the contracts over a registry: the actions of a list, each with the Type
\* that getType returns for its type name
Contracts(h, m) ==
    {[actions |-> [n \in {l[i].name : i \in DOMAIN l} |->
                      getType(h, m, l[CHOOSE i \in DOMAIN l : l[i].name = n].type).ref]] :
        l \in {l \in ActionLists : \A i \in DOMAIN l : getType(h, m, l[i].type).err = ""}}

Authorizations ==
    {<<>>, <<[actor |-> <<"a", "l", "i", "c", "e">>, permission |-> <<"a", "c", "t", "i", "v", "e">>]>>}

\* payloads to encode for an action name: values of its Type when it has
\* one, any value otherwise
ActionValues(h, contract, name) ==
    IF name \in DOMAIN contract.actions
    THEN Values(h, contract.actions[name], MaxDepth - 1, FALSE)
             \cup {ObjectOf([n \in {} |-> NullValue])}
    ELSE {ObjectOf([n \in {} |-> NullValue]), NumberOf(Num(7)),
          StringOf(<<"0", "7">>), BytesOf(<<7>>)}

\* payloads to decode: hexadecimal text and bytes, well formed or not
ActionPayloads(h, contract, name) ==
    LET E == {serialize(h, contract.actions[name], NewSerialBuffer, v,
                        SerializeLimit(h, contract.actions[name], v)) :
                  v \in IF name \in DOMAIN contract.actions
                        THEN Values(h, contract.actions[name], MaxDepth - 1, FALSE)
                        ELSE {}}
        B == {asUint8Array(e.buf) : e \in {e \in E : e.err = ""}}
    IN  {StringOf(arrayToHex(a)) : a \in B} \cup {BytesOf(a) : a \in B}
            \cup {StringOf(<<"0", "7">>), StringOf(<<"0", "7", "1">>),
                  StringOf(<<"z", "z">>), StringOf(<<>>), BytesOf(<<7>>), BytesOf(<<>>)}

InitCodec == InitAbi

Compile ==
    /\ pc = "new"
    /\ calls = 0
    /\ \E abi \in Abis : CallGetTypesFromAbi(abi)

Ready == pc \in {"new", "compiled"}

GetType ==
    /\ Ready
    /\ \E name \in LookupNames :
         LET r == getType(heap, types, name)
         IN  /\ arg' = [op |-> "getType", name |-> name]
             /\ \E err \in EngineOutcomes(r.err) :
                   /\ result' = [op |-> "getType", val |-> r.ref, err |-> err]
                   /\ pc' = IF Running(err) THEN "running" ELSE "resolved"
             /\ UNCHANGED <<buffer, heap, initialTypes, types, calls>>

Serialize ==
    /\ Ready
    /\ \E name \in SerializeNames :
         LET t == getType(heap, types, name)
         IN  /\ t.err = ""
             /\ \E data \in Values(heap, t.ref, MaxDepth, TRUE) :
                  LET r == serialize(heap, t.ref, NewSerialBuffer, data,
                                     SerializeLimit(heap, t.ref, data))
                  IN  /\ buffer' = r.buf
                      /\ arg' = [op |-> "serialize", name |-> name, type |-> t.ref,
                                 data |-> data]
                      /\ result' = Returned("serialize", r)
                      /\ pc' = "serialized"
                      /\ UNCHANGED <<heap, initialTypes, types, calls>>

\* the bytes just written are read with the Type that wrote them
Deserialize ==
    /\ pc = "serialized"
    /\ result.err = ""
    /\ LET r == deserialize(heap, arg.type, buffer, DeserializeLimit(heap, arg.type, buffer))
       IN  /\ buffer' = r.buf
           /\ result' = Returned("deserialize", r)
           /\ pc' = "deserialized"
           /\ UNCHANGED <<arg, heap, initialTypes, types, calls>>

ActionCall(op, contract, name, authorization, data, r) ==
    /\ buffer' = r.buf
    /\ arg' = [op |-> op, contract |-> contract, account |-> N_eosio, name |-> name,
               authorization |-> authorization, data |-> data]
    /\ result' = Returned(op, r)
    /\ pc' = "called"
    /\ UNCHANGED <<heap, initialTypes, types, calls>>

SerializeActionData ==
    /\ Ready
    /\ \E contract \in Contracts(heap, types), name \in ActionNames :
         \E data \in ActionValues(heap, contract, name) :
            ActionCall("serializeActionData", contract, name, <<>>, data,
                       serializeActionData(heap, contract, N_eosio, name, data))

SerializeAction ==
    /\ Ready
    /\ \E contract \in Contracts(heap, types), name \in ActionNames,
          authorization \in Authorizations :
         \E data \in ActionValues(heap, contract, name) :
            ActionCall("serializeAction", contract, name, authorization, data,
                       serializeAction(heap, contract, N_eosio, name, authorization, data))

DeserializeActionData ==
    /\ Ready
    /\ \E contract \in Contracts(heap, types), name \in ActionNames :
         \E data \in ActionPayloads(heap, contract, name) :
            ActionCall("deserializeActionData", contract, name, <<>>, data,
                       deserializeActionData(heap, contract, N_eosio, name, data))

DeserializeAction ==
    /\ Ready
    /\ \E contract \in Contracts(heap, types), name \in ActionNames,
          authorization \in Authorizations :
         \E data \in ActionPayloads(heap, contract, name) :
            ActionCall("deserializeAction", contract, name, authorization, data,
                       deserializeAction(heap, contract, N_eosio, name, authorization, data))

NextCodec ==
    \/ Compile
    \/ GetType
    \/ Serialize
    \/ Deserialize
    \/ SerializeActionData
    \/ SerializeAction
    \/ DeserializeActionData
    \/ DeserializeAction

SpecCodec == InitCodec /\ [][NextCodec]_vars

\* the codec never meets a case the model leaves out
AllModelled == result.err # "Unmodelled"

(***************************************************************************)
(* Properties of the codec calls                                           *)
(***************************************************************************)
\* the result of encoding a value alone, into a new buffer
EncodingOf(h, ref, v) ==
    serialize(h, ref, NewSerialBuffer, v, SerializeLimit(h, ref, v))

\* the result of decoding bytes alone, from a new buffer that holds them
DecodingOf(h, ref, bytes) ==
    deserialize(h, ref, pushArray(NewSerialBuffer, bytes),
                DeserializeLimit(h, ref, pushArray(NewSerialBuffer, bytes)))

\* the sequences from the i-th to the j-th of a sequence of sequences, one
\* after the other
RECURSIVE Flatten(_, _, _)
Flatten(seqs, i, j) ==
    IF i > j THEN <<>>
    ELSE IF i = j THEN seqs[i]
    ELSE Flatten(seqs, i, (i + j) \div 2) \o Flatten(seqs, ((i + j) \div 2) + 1, j)

\* a struct whose base chain is made of structs
RECURSIVE StructChain(_, _)
StructChain(h, type) ==
    /\ IsStruct(type)
    /\ type.base.k # "null" => StructChain(h, Deref(h, type.base))

\* the encodings of the first k fields in wire order, each made alone
FieldBytes(h, wire, data, k) ==
    Flatten([i \in 1..k |-> asUint8Array(EncodingOf(h, wire[i].type, data.props[wire[i].name]).buf)],
            1, k)

StructCall ==
    /\ pc \in {"serialized", "deserialized"}
    /\ arg.op = "serialize"
    /\ StructChain(heap, Deref(heap, arg.type))
    /\ arg.data.t = "object"

\* C2: encoding a value with a struct writes the encodings of the fields of
\* the most distant ancestor first, then those of each descendant, the own
\* fields last, each group in declaration order; decoding these bytes returns
\* one mapping with every field of the chain and the value encoded for it.
StructWireOrder ==
    StructCall =>
        LET wire == WireFields(heap, Deref(heap, arg.type))
        IN  /\ (pc = "serialized" /\ result.err = "")
                   => /\ \A i \in DOMAIN wire : wire[i].name \in DOMAIN arg.data.props
                      /\ asUint8Array(buffer) = FieldBytes(heap, wire, arg.data, Len(wire))
            /\ pc = "deserialized"
                   => /\ result.err = ""
                      /\ result.val = ObjectOf([n \in {wire[i].name : i \in DOMAIN wire} |->
                                                   arg.data.props[n]])
                      /\ buffer.readPos = buffer.length

\* a struct with a base that has a base has been encoded and decoded
StructWireOrderWitness ==
    /\ StructCall
    /\ pc = "deserialized"
    /\ result.err = ""
    /\ Deref(heap, arg.type).base.k # "null"
    /\ Deref(heap, Deref(heap, arg.type).base).base.k # "null"
    /\ Len(Deref(heap, Deref(heap, Deref(heap, arg.type).base).base).fields) > 1
    /\ Len(asUint8Array(buffer)) > Len(WireFields(heap, Deref(heap, arg.type)))

\* no entry of the registry is an alias that getType follows for ever
NoAliasCycle(h, m) == \A n \in DOMAIN m.at : getType(h, m, n).err # "NoReturn"

\* the Type getType makes for a name with a suffix
IsNewType(ref, name, encode, decode) ==
    /\ ref.k = "new"
    /\ ref.type.name = name
    /\ ref.type.aliasOfName = <<>>
    /\ ref.type.baseName = <<>>
    /\ ref.type.base = Null
    /\ ref.type.fields = <<>>
    /\ ref.type.serialize = encode
    /\ ref.type.deserialize = decode

ArrayCall ==
    /\ pc \in {"serialized", "deserialized"}
    /\ arg.op = "serialize"
    /\ arg.type.k = "new"
    /\ arg.type.type.serialize = "serializeArray"
    /\ arg.data.t = "array"

OptionalCall ==
    /\ pc \in {"serialized", "deserialized"}
    /\ arg.op = "serialize"
    /\ arg.type.k = "new"
    /\ arg.type.type.serialize = "serializeOptional"

\* C5: encoding a list with an array Type that getType made writes the
\* varuint32 encoding of its length and then the encodings of its elements
\* in order, the single byte 0 for the empty list; encoding with an optional
\* Type that getType made writes the single byte 0 for null and undefined,
\* and the byte 1 and the inner encoding for any other value; decoding these
\* bytes reads all of them and returns the list of what the encodings of
\* the elements decode to, null for the byte 0, and what the inner encoding
\* decodes to.
ArrayOptionalEncoding ==
    /\ ArrayCall =>
          LET items == arg.data.items
              enc == [i \in DOMAIN items |-> EncodingOf(heap, arg.type.type.arrayOf, items[i])]
          IN  /\ (pc = "serialized" /\ \A i \in DOMAIN items : enc[i].err = "")
                     => /\ result.err = ""
                        /\ asUint8Array(buffer) =
                               VaruintBytes(Num(Len(items)))
                                   \o Flatten([i \in DOMAIN items |-> asUint8Array(enc[i].buf)],
                                              1, Len(items))
                        /\ items = <<>> => asUint8Array(buffer) = <<0>>
              /\ (pc = "deserialized"
                  /\ \A i \in DOMAIN items :
                         DecodingOf(heap, arg.type.type.arrayOf, asUint8Array(enc[i].buf)).err = "")
                     => /\ result.err = ""
                        /\ result.val =
                               ArrayOf([i \in DOMAIN items |->
                                   DecodingOf(heap, arg.type.type.arrayOf,
                                              asUint8Array(enc[i].buf)).val])
                        /\ buffer.readPos = buffer.length
    /\ OptionalCall =>
          LET absent == arg.data.t \in {"null", "undefined"}
              inner == EncodingOf(heap, arg.type.type.optionalOf, arg.data)
          IN  /\ (pc = "serialized" /\ absent)
                     => result.err = "" /\ asUint8Array(buffer) = <<0>>
              /\ (pc = "serialized" /\ ~absent /\ inner.err = "")
                     => result.err = "" /\ asUint8Array(buffer) = <<1>> \o asUint8Array(inner.buf)
              /\ (pc = "deserialized" /\ absent)
                     => /\ result.err = ""
                        /\ result.val = NullValue
                        /\ buffer.readPos = buffer.length
              /\ (pc = "deserialized" /\ ~absent
                  /\ DecodingOf(heap, arg.type.type.optionalOf, asUint8Array(inner.buf)).err = "")
                     => /\ result.err = ""
                        /\ result.val =
                               DecodingOf(heap, arg.type.type.optionalOf, asUint8Array(inner.buf)).val
                        /\ buffer.readPos = buffer.length

\* a list whose length takes two bytes has been encoded and decoded
ArrayOptionalEncodingWitness ==
    /\ ArrayCall
    /\ pc = "deserialized"
    /\ result.err = ""
    /\ Len(arg.data.items) = LongArrayLen
    /\ Len(VaruintBytes(Num(LongArrayLen))) = 2
    /\ result.val = arg.data

\* a present value has been encoded and decoded with an optional Type
OptionalPresentWitness ==
    /\ OptionalCall
    /\ pc = "deserialized"
    /\ arg.data.t = "object"
    /\ asUint8Array(buffer)[1] = 1
    /\ result.val = arg.data

\* a value that lacks a field of the struct chain has been encoded
MissingCall ==
    /\ pc = "serialized"
    /\ StructCall
    /\ \E i \in DOMAIN WireFields(heap, Deref(heap, arg.type)) :
           WireFields(heap, Deref(heap, arg.type))[i].name \notin DOMAIN arg.data.props

\* the first field in wire order that the value lacks
FirstMissing(wire, data) ==
    CHOOSE k \in DOMAIN wire :
        /\ wire[k].name \notin DOMAIN data.props
        /\ \A j \in 1..(k - 1) : wire[j].name \in DOMAIN data.props

\* C9, as claimed: encoding a value that lacks a field of the struct or of
\* its base chain fails with MissingField, whatever the other fields hold,
\* and the buffer holds the bytes of the fields before the missing one and
\* nothing else.
MissingFieldAsClaimed ==
    MissingCall =>
        LET wire == WireFields(heap, Deref(heap, arg.type))
            k == FirstMissing(wire, arg.data)
        IN  /\ result.err = "MissingField"
            /\ asUint8Array(buffer) = FieldBytes(heap, wire, arg.data, k - 1)

\* C9, amended: encoding a value that lacks a field of the struct or of its
\* base chain fails. The failure is MissingField for the first field in wire
\* order that the value lacks, and the buffer then holds the bytes of the
\* fields before it and nothing else, unless the encoding of one of the
\* fields before it fails: then the failure is that of the first such field,
\* and the buffer holds the bytes of the fields before that one and what
\* its encoding wrote.
MissingFieldFails ==
    MissingCall =>
        LET wire == WireFields(heap, Deref(heap, arg.type))
            k == FirstMissing(wire, arg.data)
            enc == [j \in 1..(k - 1) |->
                       EncodingOf(heap, wire[j].type, arg.data.props[wire[j].name])]
            failing == {j \in 1..(k - 1) : enc[j].err # ""}
        IN  /\ result.err # ""
            /\ IF failing = {}
               THEN /\ result.err = "MissingField"
                    /\ result.val.field = wire[k].name
                    /\ asUint8Array(buffer) = FieldBytes(heap, wire, arg.data, k - 1)
               ELSE LET j == CHOOSE j \in failing : \A i \in failing : j <= i
                    IN  /\ result.err = enc[j].err
                        /\ asUint8Array(buffer) = FieldBytes(heap, wire, arg.data, j - 1)
                                              \o asUint8Array(enc[j].buf)

\* a field of the struct itself was missing after the fields of its base
\* had been written
MissingFieldFailsWitness ==
    /\ MissingCall
    /\ result.err = "MissingField"
    /\ Deref(heap, arg.type).base.k # "null"
    /\ \E i \in DOMAIN Deref(heap, arg.type).fields :
           Deref(heap, arg.type).fields[i].name = result.val.field
    /\ Len(asUint8Array(buffer)) > 8

ActionAbsent == pc = "called" /\ arg.name \notin DOMAIN arg.contract.actions

\* what a wrapper returns around the result of the codec
Wrapped(inner) ==
    [account |-> arg.account, name |-> arg.name, authorization |-> arg.authorization,
     data |-> inner]

\* C10: for an action name the contract does not have, serializeActionData,
\* deserializeActionData, serializeAction and deserializeAction fail with
\* UnknownAction and return nothing, whatever the payload; for a name it
\* has, serializeAction and deserializeAction return the account, the name
\* and the authorization they were given around what serializeActionData and
\* deserializeActionData return, and fail when these fail.
UnknownActionFails ==
    /\ ActionAbsent => result.err = "UnknownAction" /\ result.val = <<>>
    /\ (pc = "called" /\ ~ActionAbsent /\ arg.op = "serializeAction")
           => LET inner == serializeActionData(heap, arg.contract, arg.account,
                                               arg.name, arg.data)
              IN  /\ result.err = inner.err
                  /\ inner.err = "" => result.val = Wrapped(inner.val)
    /\ (pc = "called" /\ ~ActionAbsent /\ arg.op = "deserializeAction")
           => LET inner == deserializeActionData(heap, arg.contract, arg.account,
                                                 arg.name, arg.data)
              IN  /\ result.err = inner.err
                  /\ inner.err = "" => result.val = Wrapped(inner.val)

\* deserializeAction has failed for an absent action and a hexadecimal text
\* of odd length
UnknownActionFailsWitness ==
    /\ ActionAbsent
    /\ arg.op = "deserializeAction"
    /\ arg.data.t = "string"
    /\ Len(arg.data.str) = 3
    /\ arg.authorization # <<>>
    /\ result.err = "UnknownAction"

\* serializeAction has returned for an action the contract has
ActionWrappedWitness ==
    /\ pc = "called"
    /\ ~ActionAbsent
    /\ arg.op = "serializeAction"
    /\ arg.authorization # <<>>
    /\ result.err = ""
    /\ Len(result.val.data.str) > 2

\* C12, as claimed: every call of getTypesFromAbi, of getType, of a codec
\* and of an action function returns or fails after finitely many steps,
\* whatever the schema: no caller waits for ever.
EveryCallReturns == pc # "running" /\ result.err # "NoReturn"

\* what holds instead: the calls that do not end by themselves are those of
\* getType, alone or within getTypesFromAbi, and a getType on the compiled
\* registry does not end only when the registry has an alias cycle
ReturnsWithoutAliasCycle ==
    result.err \in {"NoReturn", "StackOverflow"}
        => /\ result.op \in {"getType", "getTypesFromAbi"}
           /\ result.op = "getType" => ~NoAliasCycle(heap, types)

(***************************************************************************)
(* SpecBuffer: writes and reads on one SerialBuffer, in any order          *)
(***************************************************************************)
MaxOps == 4

\* n bytes that differ from their neighbours
BytePattern(n) == [i \in 1..n |-> (7 * i + 3) % 256]

ReserveSizes == {0, InitialCapacity + 1, 3 * InitialCapacity}

PushedArrays ==
    {<<>>, <<1, 2, 3>>, <<128, 255>>, BytePattern(700), BytePattern(InitialCapacity)}

ReadLengths == {0, 2, 700}

WriteOps ==
    {"reserve", "push", "pushArray", "pushUint8ArrayChecked", "pushVaruint32", "pushName",
     "pushAsset"}

ReadOps == {"get", "getUint8Array", "getVaruint32", "getVarint32", "getName"}

\* The caller keeps, next to the operation and its argument, the buffer as
\* it was before the operation, the bytes the operation was to write, all
\* the bytes written so far (log) and all the bytes read so far (seen).
InitBuffer ==
    /\ buffer = NewSerialBuffer
    /\ arg = [op |-> "none", n |-> 0, size |-> 0, before |-> NewSerialBuffer,
              bytes |-> <<>>, log |-> <<>>, seen |-> <<>>]
    /\ result = NoResult
    /\ pc = "new"
    /\ RegistryIdle

\* one operation: r is what it returns or throws, with the buffer after it
BufferCall(op, size, bytes, got, r) ==
    /\ arg.n < MaxOps
    /\ buffer' = r.buf
    /\ result' = Returned(op, r)
    /\ arg' = [op |-> op, n |-> arg.n + 1, size |-> size, before |-> buffer,
               bytes |-> bytes, log |-> arg.log \o bytes, seen |-> arg.seen \o got]
    /\ pc' = "called"
    /\ UNCHANGED <<heap, initialTypes, types, calls>>

\* the bytes a write puts into a new buffer
BytesWritten(b) == asUint8Array(b)

\* the bytes of b between its cursor and the cursor of the buffer a read left
BytesConsumed(b, after) == SubSeq(b.array, b.readPos + 1, after.readPos)

Reserve ==
    \E size \in ReserveSizes :
        BufferCall("reserve", size, <<>>, <<>>, Ok(reserve(buffer, size), <<>>))

Push ==
    \E v \in {<<200>>, <<5, 128>>} :
        BufferCall("push", Len(v), v, <<>>, Ok(push(buffer, v), <<>>))

PushArray ==
    \E v \in PushedArrays :
        BufferCall("pushArray", Len(v), v, <<>>, Ok(pushArray(buffer, v), <<>>))

PushUint8ArrayChecked ==
    \E v \in {<<1, 2>>}, len \in {2, 3} :
        BufferCall("pushUint8ArrayChecked", len, IF Len(v) = len THEN v ELSE <<>>, <<>>,
                   pushUint8ArrayChecked(buffer, v, len))

PushTyped ==
    \/ \E v \in {Num(300)} :
           BufferCall("pushVaruint32", 0, BytesWritten(pushVaruint32(NewSerialBuffer, v)),
                      <<>>, Ok(pushVaruint32(buffer, v), <<>>))
    \/ \E s \in {<<"a", "l", "i", "c", "e">>} :
           BufferCall("pushName", 0, BytesWritten(pushName(NewSerialBuffer, s)),
                      <<>>, Ok(pushName(buffer, s), <<>>))
    \/ \E text \in {<<"1", ".", "5", " ", "S">>, <<".", "5", " ", "S">>} :
           BufferCall("pushAsset", 0, BytesWritten(pushAsset(NewSerialBuffer, text).buf),
                      <<>>, pushAsset(buffer, text))

Get ==
    LET r == get(buffer)
    IN  BufferCall("get", 1, <<>>, IF r.err = "" THEN <<r.val>> ELSE <<>>, r)

GetUint8Array ==
    \E len \in ReadLengths :
        LET r == getUint8Array(buffer, len)
        IN  BufferCall("getUint8Array", len, <<>>, IF r.err = "" THEN r.val ELSE <<>>, r)

GetTyped ==
    \/ LET r == getVaruint32(buffer)
       IN  BufferCall("getVaruint32", 0, <<>>, BytesConsumed(buffer, r.buf), r)
    \/ LET r == getVarint32(buffer)
       IN  BufferCall("getVarint32", 0, <<>>, BytesConsumed(buffer, r.buf), r)
    \/ LET r == getName(buffer)
       IN  BufferCall("getName", 0, <<>>, BytesConsumed(buffer, r.buf), r)

NextBuffer ==
    \/ Reserve
    \/ Push
    \/ PushArray
    \/ PushUint8ArrayChecked
    \/ PushTyped
    \/ Get
    \/ GetUint8Array
    \/ GetTyped

SpecBuffer == InitBuffer /\ [][NextBuffer]_vars

\* the bytes of b that are written and not read yet
Remaining(b) == SubSeq(b.array, b.readPos + 1, b.length)

\* C11: the cursor never passes the written length. get fails with
\* BufferUnderrun exactly when the cursor is at or past the written length,
\* and otherwise returns the byte at the cursor and moves the cursor by 1.
\* getUint8Array(n) fails with BufferUnderrun exactly when fewer than n bytes
\* remain, and otherwise returns the next n bytes and moves the cursor by n.
\* A get or getUint8Array that fails leaves the buffer as it was. getVaruint32
\* fails with BufferUnderrun when no byte remains or every remaining byte
\* has the continuation flag.
ReadsStayWithin ==
    /\ buffer.readPos <= buffer.length
    /\ arg.op = "get"
           => LET b == arg.before
              IN  IF b.readPos >= b.length
                  THEN result.err = "BufferUnderrun" /\ buffer = b
                  ELSE /\ result.err = ""
                       /\ result.val = Remaining(b)[1]
                       /\ buffer = [b EXCEPT !.readPos = b.readPos + 1]
    /\ arg.op = "getUint8Array"
           => LET b == arg.before
              IN  IF Len(Remaining(b)) < arg.size
                  THEN result.err = "BufferUnderrun" /\ buffer = b
                  ELSE /\ result.err = ""
                       /\ result.val = SubSeq(Remaining(b), 1, arg.size)
                       /\ buffer = [b EXCEPT !.readPos = b.readPos + arg.size]
    /\ arg.op = "getVaruint32"
           => LET rest == Remaining(arg.before)
              IN  (\A i \in DOMAIN rest : rest[i] >= 128) => result.err = "BufferUnderrun"

\* getVaruint32 has failed on bytes that all had the continuation flag,
\* after a read that succeeded
ReadsStayWithinWitness ==
    /\ arg.op = "getVaruint32"
    /\ result.err = "BufferUnderrun"
    /\ Remaining(arg.before) # <<>>
    /\ arg.before.readPos > 0

\* C13: after any writes and reads, failed ones included, 0 <= read cursor
\* <= written length <= capacity; no operation lowers the capacity; a write
\* of k bytes raises the written length by k, puts its bytes after those
\* written before, which stay as they were, and leaves the cursor alone,
\* also when the array grows; a read leaves the written bytes alone; and the
\* reads so far have returned the first bytes written, in the order of
\* writing.
BufferInvariant ==
    /\ 0 <= buffer.readPos
    /\ buffer.readPos <= buffer.length
    /\ buffer.length <= Len(buffer.array)
    /\ Len(buffer.array) >= Len(arg.before.array)
    /\ arg.op \in WriteOps
           => /\ buffer.length = arg.before.length + Len(arg.bytes)
              /\ asUint8Array(buffer) = asUint8Array(arg.before) \o arg.bytes
              /\ buffer.readPos = arg.before.readPos
    /\ arg.op \in ReadOps
           => /\ buffer.length = arg.before.length
              /\ buffer.array = arg.before.array
              /\ buffer.readPos >= arg.before.readPos
    /\ asUint8Array(buffer) = arg.log
    /\ arg.seen = SubSeq(arg.log, 1, buffer.readPos)

\* bytes written after the array had grown have been read, after a read
\* from the array before it grew
BufferInvariantWitness ==
    /\ arg.op = "getUint8Array"
    /\ result.err = ""
    /\ arg.size > 0
    /\ arg.before.readPos > 0
    /\ buffer.readPos > InitialCapacity
    /\ Len(buffer.array) > InitialCapacity
====
